---- MODULE Spec2Model ----
(***************************************************************************)
(* tcp-probe (src/main.rs): main collects the targets, spawns one task per *)
(* target behind a counting semaphore, every task runs probe_host (a       *)
(* bounded retry loop: backoff sleep, resolve, connect-or-timeout), main   *)
(* joins the handles in spawn order, reports and exits.                    *)
(***************************************************************************)
EXTENDS Integers, Sequences, FiniteSets, TLC

\* ------------------------------------------------------------------ bounds
MaxCliTargets == 1
MaxRetries == 2
MaxConcurrency == 2
MaxTimeoutLen == 4
MaxFileLines == 2
MaxLineLen == 2
MaxWorkers == 1

\* ------------------------------------------------------- option encoding
None == << >>
Some(x) == << x >>

\* --------------------------------------------------------------- inputs
\* A string the code inspects character by character is a sequence of
\* one-character strings.
HostName(i) == << "h", ToString(i) >>
CliTargetLists == { [ i \in 1 .. n |-> HostName(i) ] : n \in 0 .. MaxCliTargets }
\* The files tried in the runs that probe: empty, only ignorable lines, one
\* target with spaces around it among ignorable lines.
FileContents ==
    { << >>,
      << <<"#", "a">>, <<" ">>, << >> >>,
      << <<" ", "#">>, <<" ", "c", " ">>, << >> >> }

\* Every file of at most MaxFileLines lines of at most MaxLineLen characters.
LineChars == { " ", "#", "c" }
LineStrings == UNION { [ 1 .. n -> LineChars ] : n \in 0 .. MaxLineLen }
AnyFileContents == UNION { [ 1 .. n -> LineStrings ] : n \in 0 .. MaxFileLines }

\* --timeout: the default, and the characters the strings tried are made of.
DefaultTimeout == << "5", "s" >>
TimeoutChars == { "0", "2", ".", "m", "s", " " }
TimeoutStrings == UNION { [ 1 .. n -> TimeoutChars ] : n \in 0 .. MaxTimeoutLen }

\* The outcomes the network can give one attempt.
AddrLists == { << >>, << "A1", "A2" >> }
ResolveErrors == { "lookup failed" }
ConnectErrors == { "refused" }
Latencies == { 3 }

\* ---------------------------------------------------------------- state
VARIABLES
    args,        \* Args: targets, retries, concurrency, file
    file,        \* what fs::read_to_string gives for args.file
    workers,     \* worker threads of the runtime that #[tokio::main] builds
    connect_timeout, \* parse_duration(&args.timeout), in milliseconds
    pc,          \* position of main
    targets,     \* merged target list
    permits,     \* available permits of the semaphore
    tasks,       \* one record per spawned task (handles, in spawn order)
    obs,         \* per task: what the task has done so far (observation only)
    completed,   \* task indices in the order the tasks finished (observation only)
    joined,      \* number of handles main has awaited
    results,     \* Vec<ProbeResult> collected by main
    healthy,     \* count computed after the join loop
    stdout,      \* what has been printed
    exit_code    \* None while running, Some(code) once the process has exited

vars == << args, file, workers, connect_timeout, pc, targets, permits, tasks, obs, completed, joined, results,
           healthy, stdout, exit_code >>

\* ----------------------------------------------- target collection (main)
IsWhitespace(c) == c = " "

RECURSIVE TrimStart(_)
TrimStart(s) ==
    IF s # << >> /\ IsWhitespace(Head(s)) THEN TrimStart(Tail(s)) ELSE s

RECURSIVE TrimEnd(_)
TrimEnd(s) ==
    IF s # << >> /\ IsWhitespace(s[Len(s)]) THEN TrimEnd(SubSeq(s, 1, Len(s) - 1)) ELSE s

Trim(s) == TrimEnd(TrimStart(s))

StartsWithHash(s) == s # << >> /\ Head(s) = "#"

\* Variant: the emptiness test is missing.
KeepLineAllowEmpty(line) == ~StartsWithHash(line)

KeepLine(line) == line # << >> /\ ~StartsWithHash(line)

RECURSIVE PushFileLines(_, _)
PushFileLines(acc, lines) ==
    IF lines = << >> THEN acc
    ELSE LET line == Trim(Head(lines))
         IN  PushFileLines(IF KeepLine(line) THEN Append(acc, line) ELSE acc, Tail(lines))

\* ------------------------------------------------------- parse_duration
\* Durations are in milliseconds. Over TimeoutChars the numbers that
\* str::parse::<f64> accepts are digits with at most one '.', and those that
\* str::parse::<u64> accepts are digits only.
Digits == { "0", "1", "2", "3", "4", "5", "6", "7", "8", "9" }

DigitValue(c) ==
    CASE c = "0" -> 0 [] c = "1" -> 1 [] c = "2" -> 2 [] c = "3" -> 3 [] c = "4" -> 4
      [] c = "5" -> 5 [] c = "6" -> 6 [] c = "7" -> 7 [] c = "8" -> 8 [] c = "9" -> 9

AllDigits(s) == \A i \in 1 .. Len(s) : s[i] \in Digits

RECURSIVE DigitsValue(_)
DigitsValue(s) ==
    IF s = << >> THEN 0
    ELSE 10 * DigitsValue(SubSeq(s, 1, Len(s) - 1)) + DigitValue(s[Len(s)])

ParseU64(s) == IF s # << >> /\ AllDigits(s) THEN Some(DigitsValue(s)) ELSE None

\* The thousandths of a fraction's digits.
FracMillis(fp) == DigitsValue(SubSeq(fp \o << "0", "0", "0" >>, 1, 3))

\* parse::<f64>() of a number of seconds, as milliseconds.
ParseF64Secs(s) ==
    LET dots == { i \in 1 .. Len(s) : s[i] = "." }
    IN  IF dots = { }
        THEN IF s # << >> /\ AllDigits(s) THEN Some(1000 * DigitsValue(s)) ELSE None
        ELSE IF Cardinality(dots) = 1
        THEN LET i == CHOOSE d \in dots : TRUE
                 ip == SubSeq(s, 1, i - 1)
                 fp == SubSeq(s, i + 1, Len(s))
             IN  IF AllDigits(ip) /\ AllDigits(fp) /\ Len(ip) + Len(fp) >= 1
                 THEN Some(1000 * DigitsValue(ip) + FracMillis(fp))
                 ELSE None
        ELSE None

StripSuffix(s, suffix) ==
    IF Len(s) >= Len(suffix) /\ SubSeq(s, Len(s) - Len(suffix) + 1, Len(s)) = suffix
    THEN Some(SubSeq(s, 1, Len(s) - Len(suffix)))
    ELSE None

UnwrapOr(opt, default) == IF opt = None THEN default ELSE opt[1]

parse_duration(str) ==
    LET s == Trim(str)
    IN  IF StripSuffix(s, << "s" >>) # None
        THEN UnwrapOr(ParseF64Secs(StripSuffix(s, << "s" >>)[1]), 5000)
        ELSE IF StripSuffix(s, << "m", "s" >>) # None
        THEN UnwrapOr(ParseU64(StripSuffix(s, << "m", "s" >>)[1]), 5000)
        ELSE 1000 * UnwrapOr(ParseU64(s), 5)

\* Variant: the empty check is missing.
TargetsEmptyUnchecked(ts) == FALSE

TargetsEmpty(ts) == Len(ts) = 0

\* --------------------------------------------------------- probe_host
\* Variant: a constant backoff.
BackoffMsConstant(attempt) == 100

BackoffMs(attempt) == 100 * attempt

\* Variant: the loop range excludes its upper end (0..retries).
HasNextAttemptExclusive(attempt, retries) == attempt + 1 < retries

HasNextAttempt(attempt, retries) == attempt < retries

\* Variant: counts attempts instead of retries.
RetriesUsedAsAttempts(attempt) == attempt + 1

RetriesUsedAt(attempt) == attempt

\* How long a connect attempt that times out lasts: the timer is armed anew
\* by every call of timeout() (line 90).
\* Variant: one deadline, armed by the first attempt, for all attempts.
TimeoutElapsedDeadline(t, attempt) == IF attempt = 0 THEN t ELSE 0

TimeoutElapsed(t, attempt) == t

\* `addr` belongs to one iteration of the loop.
\* Variant: the address of a failed attempt is kept for the next one.
AddrCarried(addr) == addr

AddrNextIteration(addr) == None

\* Variant: the empty-lookup branch does not record its error.
NoAddressesErrorKept(last_error) == last_error

NoAddressesError(last_error) == Some(<<"DNS resolution failed: no addresses", "", "">>)

DnsError(last_error, e) == Some(<<"DNS error: ", e, "">>)

ConnectionError(last_error, e) == Some(<<"Connection refused: ", e, "">>)

TimeoutError(last_error, t) == Some(<<"timeout (", ToString(t), "ms)">>)

OkResult(host, elapsed, retries_used) ==
    [ host |-> host, status |-> "ok", latency_ms |-> Some(elapsed),
      error |-> None, retries_used |-> retries_used ]

\* Variant: the failure result is built without the error.
FailResultNoError(host, last_error, retries_used) ==
    [ host |-> host, status |-> "fail", latency_ms |-> None,
      error |-> None, retries_used |-> retries_used ]

FailResult(host, last_error, retries_used) ==
    [ host |-> host, status |-> "fail", latency_ms |-> None,
      error |-> last_error, retries_used |-> retries_used ]

\* --------------------------------------------------------- semaphore
\* Variant: no admission check.
CanAcquireAlways(p) == TRUE

CanAcquire(p) == p > 0

\* Variant: the permit is given back twice.
ReleasePermitTwice(p) == p + 2

\* Variant: the permit is never given back.
ReleasePermitLeaked(p) == p

ReleasePermit(p) == p + 1

\* ------------------------------------------------------------ main tail
\* The handle the join loop awaits next: handles are awaited in spawn order.
\* Variant: results are taken as the tasks finish.
NextHandleByCompletion(n, done) == IF n + 1 <= Len(done) THEN done[n + 1] ELSE n + 1

NextHandle(n, done) == n + 1

\* The join loop ends when every handle has been awaited.
\* Variant: the loop ends after the first handle.
JoinLoopDoneEarly(j, n) == j >= 1

JoinLoopDone(j, n) == j = n

\* Variant: a failed target's result is not collected.
JoinPushOkOnly(rs, out) == IF out.status = "fail" THEN rs ELSE Append(rs, out)

JoinPush(rs, out) == Append(rs, out)

\* Variant: the filter on the status is missing.
CountOkUnfiltered(rs) == Len(rs)

RECURSIVE CountOk(_)
CountOk(rs) ==
    IF rs = << >> THEN 0
    ELSE (IF Head(rs).status = "ok" THEN 1 ELSE 0) + CountOk(Tail(rs))

\* Variant: the run fails only when nothing is healthy.
ExitStatusAnyHealthy(h, total) == IF h = 0 THEN 1 ELSE 0

ExitStatus(h, total) == IF h < total THEN 1 ELSE 0

PrintResult(r) ==
    IF r.status = "ok"
    THEN [ tag |-> "[OK]", host |-> r.host,
           text |-> IF r.latency_ms = None THEN Some(0) ELSE r.latency_ms,
           retries_info |-> IF r.retries_used > 0 THEN Some(r.retries_used) ELSE None ]
    ELSE [ tag |-> "[FAIL]", host |-> r.host,
           text |-> IF r.error = None THEN Some(<<"unknown", "", "">>) ELSE r.error,
           retries_info |-> None ]

RECURSIVE PrintAll(_)
PrintAll(rs) ==
    IF rs = << >> THEN << >> ELSE << PrintResult(Head(rs)) >> \o PrintAll(Tail(rs))

\* ----------------------------------------------------------------- Init
FileStates ==
    { [ kind |-> "none", lines |-> << >> ], [ kind |-> "unreadable", lines |-> << >> ] }
    \cup { [ kind |-> "content", lines |-> ls ] : ls \in FileContents }

\* One worker thread per task that can exist: no task ever waits for one.
AmpleWorkers == MaxCliTargets + MaxFileLines

\* The state main starts in, for a set of argument records and of files.
InitWith(argsSet, fileSet, workerSet) ==
    /\ args \in argsSet
    /\ file \in fileSet
    /\ workers \in workerSet
    /\ connect_timeout = 0
    /\ pc = "start"
    /\ targets = << >>
    /\ permits = 0
    /\ tasks = << >>
    /\ obs = << >>
    /\ completed = << >>
    /\ joined = 0
    /\ results = << >>
    /\ healthy = 0
    /\ stdout = << >>
    /\ exit_code = None

Init ==
    InitWith([ targets : CliTargetLists,
               timeout : { DefaultTimeout },
               retries : 0 .. MaxRetries,
               concurrency : 0 .. MaxConcurrency ],
             FileStates, { AmpleWorkers })

\* The same runs on a machine with few cores.
PoolInit ==
    InitWith([ targets : CliTargetLists,
               timeout : { DefaultTimeout },
               retries : 0 .. MaxRetries,
               concurrency : 0 .. MaxConcurrency ],
             FileStates, 1 .. MaxWorkers)

\* Any --timeout string, everything else fixed.
ParseInit ==
    InitWith([ targets : { << >> },
               timeout : TimeoutStrings,
               retries : { 0 },
               concurrency : { 1 } ],
             { [ kind |-> "none", lines |-> << >> ] }, { AmpleWorkers })

\* ------------------------------------------------------------- main
\* main, lines 147-148.
ParseArgs ==
    /\ pc = "start"
    /\ connect_timeout' = parse_duration(args.timeout)
    /\ pc' = "collect"
    /\ UNCHANGED << args, file, workers, targets, permits, tasks, obs, completed, joined,
                    results, healthy, stdout, exit_code >>

\* main, lines 150-175: merge the targets, abort on an unreadable file or an
\* empty list, otherwise create the semaphore.
CollectTargets ==
    /\ pc = "collect"
    /\ IF file.kind = "unreadable"
       THEN /\ exit_code' = Some(1)
            /\ pc' = "exited"
            /\ targets' = args.targets
            /\ UNCHANGED permits
       ELSE LET merged == IF file.kind = "content"
                          THEN PushFileLines(args.targets, file.lines)
                          ELSE args.targets
            IN  /\ targets' = merged
                /\ IF TargetsEmpty(merged)
                   THEN /\ exit_code' = Some(1)
                        /\ pc' = "exited"
                        /\ UNCHANGED permits
                   ELSE /\ permits' = args.concurrency
                        /\ pc' = "spawn"
                        /\ UNCHANGED exit_code
    /\ UNCHANGED << args, file, workers, connect_timeout, tasks, obs, completed, joined, results, healthy, stdout >>

NewTask(host) ==
    [ host |-> host, pc |-> "acquire", permit |-> FALSE, attempt |-> 0, addr |-> None,
      last_error |-> None, retries_used |-> 0, out |-> None ]

\* attempts: attempts begun; sleeps: the backoff delays; last: the latest
\* attempt as << index, outcome, OS error, ms spent connecting >>;
\* only_timeouts: the ms spent connecting while no attempt has ended other
\* than by timeout.
NewObs == [ attempts |-> 0, sleeps |-> << >>, last |-> None, only_timeouts |-> Some(0) ]

ObserveAttempt(o, attempt, how, e, ms) ==
    [ o EXCEPT !.last = Some(<< attempt, how, e, ms >>),
               !.only_timeouts = IF how = "timeout" /\ @ # None THEN Some(@[1] + ms) ELSE None ]

\* main, lines 178-187: one iteration of the spawn loop.
Spawn ==
    /\ pc = "spawn"
    /\ Len(tasks) < Len(targets)
    /\ tasks' = Append(tasks, NewTask(targets[Len(tasks) + 1]))
    /\ obs' = Append(obs, NewObs)
    /\ pc' = IF Len(tasks) + 1 = Len(targets) THEN "join" ELSE "spawn"
    /\ UNCHANGED << args, file, workers, connect_timeout, targets, permits, completed, joined, results, healthy, stdout, exit_code >>

\* main, lines 190-194: await the next handle, in spawn order.
Join ==
    /\ pc = "join"
    /\ joined < Len(tasks)
    /\ tasks[NextHandle(joined, completed)].pc = "done"
    /\ results' = JoinPush(results, tasks[NextHandle(joined, completed)].out[1])
    /\ joined' = joined + 1
    /\ pc' = IF JoinLoopDone(joined + 1, Len(tasks)) THEN "report" ELSE "join"
    /\ UNCHANGED << args, file, workers, connect_timeout, targets, permits, tasks, obs, completed, healthy, stdout, exit_code >>

\* main, lines 196-215: count and print. args.json is read only here.
Report ==
    /\ pc = "report"
    /\ healthy' = CountOk(results)
    /\ \E json \in BOOLEAN :
         stdout' = IF json
                   THEN << [ results |-> results, healthy |-> CountOk(results),
                             total |-> Len(targets) ] >>
                   ELSE PrintAll(results)
                        \o << [ summary |-> << CountOk(results), Len(targets) >> ] >>
    /\ pc' = "exit"
    /\ UNCHANGED << args, file, workers, connect_timeout, targets, permits, tasks, obs, completed, joined, results, exit_code >>

\* main, lines 217-219.
Exit ==
    /\ pc = "exit"
    /\ exit_code' = Some(ExitStatus(healthy, Len(targets)))
    /\ pc' = "exited"
    /\ UNCHANGED << args, file, workers, connect_timeout, targets, permits, tasks, obs, completed, joined, results, healthy, stdout >>

\* ------------------------------------------------------------- tasks
TaskIds == 1 .. Len(tasks)

\* to_socket_addrs is a blocking call of std: a task in "resolve" keeps the
\* worker thread that polls it until the lookup returns. Polling a task
\* needs a worker that is not kept that way.
FreeWorker == Cardinality({ j \in TaskIds : tasks[j].pc = "resolve" }) < workers

\* line 184: the task gets a permit, and goes on into the lookup of
\* attempt 0.
Acquire(k) ==
    /\ tasks[k].pc = "acquire"
    /\ FreeWorker
    /\ CanAcquire(permits)
    /\ permits' = permits - 1
    /\ tasks' = [ tasks EXCEPT ![k] = [ @ EXCEPT !.pc = "resolve", !.permit = TRUE ] ]
    /\ obs' = [ obs EXCEPT ![k] = [ @ EXCEPT !.attempts = 1 ] ]
    /\ UNCHANGED << args, file, workers, connect_timeout, pc, targets, completed, joined, results, healthy, stdout, exit_code >>

\* The task's future is complete: probe_host's locals and the permit are
\* dropped, the JoinHandle holds the result.
Finished(t, result) ==
    [ host |-> t.host, pc |-> "done", permit |-> FALSE, attempt |-> 0, addr |-> None,
      last_error |-> None, retries_used |-> 0, out |-> Some(result) ]

\* The end of one failed attempt: the next iteration starts its backoff sleep
\* (lines 68-72), or the loop is over and probe_host returns the failure
\* (lines 110-116) and the task drops its permit.
AttemptFailed(k, err, how, e, ms) ==
    LET t == tasks[k]
    IN  IF HasNextAttempt(t.attempt, args.retries)
        THEN /\ tasks' = [ tasks EXCEPT ![k] =
                    [ @ EXCEPT !.last_error = err, !.attempt = t.attempt + 1,
                               !.retries_used = RetriesUsedAt(t.attempt + 1),
                               !.addr = AddrNextIteration(t.addr),
                               !.pc = "sleep" ] ]
             /\ obs' = [ obs EXCEPT ![k] =
                    [ ObserveAttempt(@, t.attempt, how, e, ms)
                        EXCEPT !.sleeps = Append(@, BackoffMs(t.attempt + 1)) ] ]
             /\ UNCHANGED << permits, completed >>
        ELSE /\ tasks' = [ tasks EXCEPT ![k] =
                    Finished(t, FailResult(t.host, err, t.retries_used)) ]
             /\ obs' = [ obs EXCEPT ![k] = ObserveAttempt(@, t.attempt, how, e, ms) ]
             /\ permits' = ReleasePermit(permits)
             /\ completed' = Append(completed, k)

\* line 71: the backoff sleep is over.
Wake(k) ==
    /\ tasks[k].pc = "sleep"
    /\ FreeWorker
    /\ tasks' = [ tasks EXCEPT ![k] = [ @ EXCEPT !.pc = "resolve" ] ]
    /\ obs' = [ obs EXCEPT ![k] = [ @ EXCEPT !.attempts = @ + 1 ] ]
    /\ UNCHANGED << args, file, workers, connect_timeout, pc, targets, permits, completed, joined, results, healthy, stdout, exit_code >>

\* lines 75-87: to_socket_addrs.
Resolve(k) ==
    /\ tasks[k].pc = "resolve"
    /\ \/ \E addrs \in AddrLists :
            IF addrs # << >>
            THEN /\ tasks' = [ tasks EXCEPT ![k] =
                        [ @ EXCEPT !.pc = "connect", !.addr = Some(Head(addrs)) ] ]
                 /\ UNCHANGED << obs, permits, completed >>
            ELSE AttemptFailed(k, NoAddressesError(tasks[k].last_error), "no_addresses", "", 0)
       \/ \E e \in ResolveErrors :
            AttemptFailed(k, DnsError(tasks[k].last_error, e), "dns_error", e, 0)
    /\ UNCHANGED << args, file, workers, connect_timeout, pc, targets, joined, results, healthy, stdout, exit_code >>

\* lines 89-107: timeout(connect_timeout, TcpStream::connect(addr)).
Connect(k) ==
    /\ tasks[k].pc = "connect"
    /\ FreeWorker
    /\ \/ \E elapsed \in Latencies :
            /\ elapsed < connect_timeout
            /\ tasks' = [ tasks EXCEPT ![k] =
                   Finished(tasks[k], OkResult(tasks[k].host, elapsed, tasks[k].retries_used)) ]
            /\ obs' = [ obs EXCEPT ![k] =
                   ObserveAttempt(@, tasks[k].attempt, "connected", "", elapsed) ]
            /\ permits' = ReleasePermit(permits)
            /\ completed' = Append(completed, k)
       \/ \E e \in ConnectErrors, elapsed \in Latencies :
            /\ elapsed < connect_timeout
            /\ AttemptFailed(k, ConnectionError(tasks[k].last_error, e), "connect_error", e, elapsed)
       \/ AttemptFailed(k, TimeoutError(tasks[k].last_error, connect_timeout), "timeout", "",
                        TimeoutElapsed(connect_timeout, tasks[k].attempt))
    /\ UNCHANGED << args, file, workers, connect_timeout, pc, targets, joined, results, healthy, stdout, exit_code >>

Next ==
    \/ ParseArgs
    \/ CollectTargets
    \/ Spawn
    \/ Join
    \/ Report
    \/ Exit
    \/ \E k \in TaskIds : Acquire(k)
    \/ \E k \in TaskIds : Wake(k)
    \/ \E k \in TaskIds : Resolve(k)
    \/ \E k \in TaskIds : Connect(k)

Spec == Init /\ [][Next]_vars

\* The runtime keeps running whatever is ready, and every sleep, lookup and
\* connect-or-timeout race completes.
LiveSpec == Init /\ [][Next]_vars /\ WF_vars(Next)

\* One target after the other, with a timeout of 200 ms or the default.
TimedInit ==
    InitWith([ targets : CliTargetLists \ { << >> },
               timeout : { << "0", ".", "2", "s" >>, DefaultTimeout },
               retries : 0 .. MaxRetries,
               concurrency : { 1 } ],
             { [ kind |-> "none", lines |-> << >> ] }, { AmpleWorkers })

\* Any small file, everything else fixed.
MergeInit ==
    InitWith([ targets : CliTargetLists,
               timeout : { DefaultTimeout },
               retries : { 0 },
               concurrency : { 1 } ],
             { [ kind |-> "none", lines |-> << >> ], [ kind |-> "unreadable", lines |-> << >> ] }
             \cup { [ kind |-> "content", lines |-> ls ] : ls \in AnyFileContents },
             { AmpleWorkers })

TimedSpec == TimedInit /\ [][Next]_vars

PoolSpec == PoolInit /\ [][Next]_vars

\* The collection of the targets on its own.
MergeSpec == MergeInit /\ [][ParseArgs \/ CollectTargets]_vars

\* parse_duration on its own.
ParseSpec == ParseInit /\ [][ParseArgs]_vars

\* ================================================================ claims
Running(k) == tasks[k].pc \in { "sleep", "resolve", "connect" }

Done(k) == tasks[k].pc = "done"

ResultOf(k) == tasks[k].out[1]

LastOf(k) == obs[k].last[1]

ProbingRan == tasks # << >>

AfterJoin == pc \in { "report", "exit" } \/ (pc = "exited" /\ ProbingRan)

\* The error text the program documents for each kind of failed attempt.
DetailOf(how, e) ==
    CASE how = "no_addresses" -> <<"DNS resolution failed: no addresses", "", "">>
      [] how = "dns_error" -> <<"DNS error: ", e, "">>
      [] how = "connect_error" -> <<"Connection refused: ", e, "">>
      [] how = "timeout" -> <<"timeout (", "5000", "ms)">>

RECURSIVE SumSeq(_)
SumSeq(q) == IF q = << >> THEN 0 ELSE Head(q) + SumSeq(Tail(q))

\* C1: the results main collects are the tasks' results in input order, one
\* per target, whatever the order in which the tasks finished.
C1_ResultsInInputOrder ==
    /\ Len(results) = joined
    /\ \A k \in 1 .. Len(results) :
         /\ results[k].host = targets[k]
         /\ Done(k) /\ results[k] = ResultOf(k)
    /\ AfterJoin => Len(results) = Len(targets)

C1_Witness ==
    /\ pc = "report"
    /\ Len(results) = 2
    /\ completed = << 2, 1 >>
    /\ results[1].status = "fail" /\ results[2].status = "ok"

\* C2: never more tasks between acquiring a permit and producing their result
\* than the configured concurrency; a task still waiting for its permit has
\* made no attempt and slept no backoff.
C2_AtMostCPastAcquire ==
    /\ Cardinality({ k \in TaskIds : Running(k) }) <= args.concurrency
    /\ \A k \in TaskIds :
         tasks[k].pc = "acquire" =>
            obs[k].attempts = 0 /\ obs[k].sleeps = << >> /\ obs[k].last = None

C2_Witness ==
    /\ Len(tasks) > args.concurrency
    /\ Cardinality({ k \in TaskIds : Running(k) }) = args.concurrency
    /\ args.concurrency >= 1
    /\ \E k \in TaskIds : tasks[k].pc = "acquire"

\* C3: a connect that succeeds on attempt i ends the loop at once: exactly
\* i+1 attempts were made and the result is "ok" with retries_used = i.
C3_SuccessStopsLoop ==
    \A k \in TaskIds :
        (obs[k].last # None /\ LastOf(k)[2] = "connected") =>
            /\ Done(k)
            /\ LastOf(k)[1] <= args.retries
            /\ obs[k].attempts = LastOf(k)[1] + 1
            /\ Len(obs[k].sleeps) = LastOf(k)[1]
            /\ ResultOf(k).status = "ok"
            /\ ResultOf(k).retries_used = LastOf(k)[1]

C3_Witness ==
    \E k \in TaskIds :
        /\ Done(k) /\ ResultOf(k).status = "ok"
        /\ LastOf(k)[1] = 1
        /\ args.retries = 2

\* C4: a task none of whose attempts connected has made exactly R+1 attempts
\* and its result is "fail" with retries_used = R; no task stops failing
\* earlier.
C4_ExhaustionAfterAllAttempts ==
    \A k \in TaskIds :
        /\ (Done(k) /\ LastOf(k)[2] # "connected") =>
              /\ obs[k].attempts = args.retries + 1
              /\ LastOf(k)[1] = args.retries
              /\ ResultOf(k).status = "fail"
              /\ ResultOf(k).retries_used = args.retries
        /\ (Done(k) /\ ResultOf(k).status = "fail") => LastOf(k)[2] # "connected"
        /\ obs[k].attempts <= args.retries + 1

C4_Witness ==
    \E k \in TaskIds :
        /\ Done(k) /\ ResultOf(k).status = "fail"
        /\ args.retries = 2 /\ obs[k].attempts = 3

\* C5: the exit status is 0 exactly when probing ran and every target ended
\* healthy, and an exit after probing comes after the output.
Emitted ==
    \/ /\ Len(stdout) = 1
       /\ "results" \in DOMAIN stdout[1]
       /\ Len(stdout[1].results) = Len(targets)
    \/ /\ Len(stdout) = Len(targets) + 1
       /\ \A k \in 1 .. Len(targets) : stdout[k].host = targets[k]

C5_ExitStatus ==
    exit_code # None =>
        /\ exit_code = Some(0) <=>
              /\ ProbingRan
              /\ Len(tasks) = Len(targets)
              /\ \A k \in TaskIds : Done(k) /\ ResultOf(k).status = "ok"
        /\ exit_code \in { Some(0), Some(1) }
        /\ ProbingRan => Emitted

C5_Witness ==
    /\ exit_code = Some(1)
    /\ Len(tasks) = 2
    /\ ResultOf(1).status = "ok" /\ ResultOf(2).status = "fail"
    /\ Emitted

\* C6: a "fail" result carries the detail of the final attempt (index R),
\* whatever kind of failure that attempt was.
C6_LastErrorIsFinalAttempt ==
    \A k \in TaskIds :
        (Done(k) /\ ResultOf(k).status = "fail") =>
            /\ LastOf(k)[1] = args.retries
            /\ ResultOf(k).error = Some(DetailOf(LastOf(k)[2], LastOf(k)[3]))

C6_Witness ==
    \E k \in TaskIds :
        /\ Done(k) /\ ResultOf(k).status = "fail"
        /\ args.retries >= 1
        /\ LastOf(k)[2] = "no_addresses"
        /\ ResultOf(k).error = Some(<<"DNS resolution failed: no addresses", "", "">>)

\* C7: the i-th backoff sleep of a task lasts 100*i ms, attempt 0 follows no
\* sleep, every later attempt follows exactly one, and a task that failed
\* all its attempts has slept 100*R*(R+1)/2 ms.
C7_LinearBackoff ==
    \A k \in TaskIds :
        /\ \A i \in 1 .. Len(obs[k].sleeps) : obs[k].sleeps[i] = 100 * i
        /\ tasks[k].pc \in { "resolve", "connect" } =>
              /\ Len(obs[k].sleeps) = obs[k].attempts - 1
              /\ tasks[k].attempt = obs[k].attempts - 1
        /\ tasks[k].pc = "sleep" =>
              /\ Len(obs[k].sleeps) = obs[k].attempts
              /\ tasks[k].attempt = obs[k].attempts
        /\ (Done(k) /\ ResultOf(k).status = "fail") =>
              SumSeq(obs[k].sleeps) * 2 = 100 * args.retries * (args.retries + 1)

C7_Witness ==
    \E k \in TaskIds :
        /\ Done(k) /\ ResultOf(k).status = "fail"
        /\ obs[k].sleeps = << 100, 200 >>
        /\ LastOf(k)[2] = "dns_error"

\* C8: with a concurrency of at least 1 the run always ends: every spawned
\* task gets a permit and finishes, and main exits after its report (or
\* after the abort of an empty or unreadable target list).
C8_RunTerminates ==
    (args.concurrency >= 1) ~>
        /\ pc = "exited"
        /\ \A k \in TaskIds : Done(k)
        /\ ProbingRan => (Len(tasks) = Len(targets) /\ stdout # << >>)

C8_Witness ==
    /\ pc = "exited"
    /\ args.concurrency >= 1
    /\ Len(tasks) > args.concurrency
    /\ \A k \in TaskIds : Done(k)
    /\ stdout # << >>
    /\ args.retries >= 1

\* C9: every target's result is what its own attempts determine, and after
\* the join every target has its result, whichever other targets failed.
OwnResult(k, r) ==
    /\ r.host = targets[k]
    /\ r.status = (IF LastOf(k)[2] = "connected" THEN "ok" ELSE "fail")
    /\ r.retries_used = LastOf(k)[1]
    /\ r.error = (IF LastOf(k)[2] = "connected" THEN None
                  ELSE Some(DetailOf(LastOf(k)[2], LastOf(k)[3])))
    /\ (r.latency_ms = None) <=> (LastOf(k)[2] # "connected")

C9_FailuresAreIsolated ==
    /\ \A k \in TaskIds : Done(k) => OwnResult(k, ResultOf(k))
    /\ AfterJoin =>
          \A k \in 1 .. Len(targets) :
              /\ k <= Len(results)
              /\ OwnResult(k, results[k])

C9_Witness ==
    /\ pc = "exited"
    /\ Len(results) = 2
    /\ results[1].status = "fail" /\ results[1].retries_used = 2
    /\ results[2].status = "ok" /\ results[2].retries_used = 0

\* C10: an unreadable file or an empty merged list ends the run with status 1
\* in its first step: no semaphore, no task, no result, no output.
Ignorable(line) ==
    \/ \A i \in 1 .. Len(line) : line[i] = " "
    \/ \E i \in 1 .. Len(line) :
         /\ line[i] = "#"
         /\ \A j \in 1 .. i - 1 : line[j] = " "

NothingToProbe ==
    \/ file.kind = "unreadable"
    \/ /\ args.targets = << >>
       /\ \A i \in 1 .. Len(file.lines) : Ignorable(file.lines[i])

C10_AbortBeforeProbing ==
    NothingToProbe =>
        /\ pc \in { "start", "collect", "exited" }
        /\ pc = "exited" => exit_code = Some(1)
        /\ tasks = << >> /\ obs = << >> /\ permits = 0
        /\ results = << >> /\ stdout = << >>

C10_Witness ==
    /\ pc = "exited"
    /\ exit_code = Some(1)
    /\ file.kind = "content" /\ Len(file.lines) = 3
    /\ tasks = << >> /\ stdout = << >>

\* C11: "<n>s" is n seconds, "<n>ms" is n milliseconds, a bare integer n is n
\* seconds, and a numeric part that does not parse gives 5 seconds (5000 ms).
ClaimedDuration(str) ==
    LET s == Trim(str)
    IN  IF StripSuffix(s, << "m", "s" >>) # None
        THEN UnwrapOr(ParseU64(StripSuffix(s, << "m", "s" >>)[1]), 5000)
        ELSE IF StripSuffix(s, << "s" >>) # None
        THEN UnwrapOr(ParseF64Secs(StripSuffix(s, << "s" >>)[1]), 5000)
        ELSE 1000 * UnwrapOr(ParseU64(s), 5)

C11_ParseDurationAsClaimed ==
    pc # "start" => connect_timeout = ClaimedDuration(args.timeout)

\* C12: in every ProbeResult the latency is present exactly when the status
\* is "ok" and the error is present exactly when the status is "fail".
WellFormedResult(r) ==
    /\ r.status \in { "ok", "fail" }
    /\ (r.latency_ms # None) <=> (r.status = "ok")
    /\ (r.error # None) <=> (r.status = "fail")

C12_LatencyXorError ==
    /\ \A k \in TaskIds : Done(k) => WellFormedResult(ResultOf(k))
    /\ \A k \in 1 .. Len(results) : WellFormedResult(results[k])

C12_Witness ==
    /\ args.retries = 0
    /\ Len(results) = 2
    /\ results[1].status = "fail" /\ results[1].error # None /\ results[1].latency_ms = None
    /\ results[2].status = "ok" /\ results[2].latency_ms # None /\ results[2].error = None
    /\ LastOf(1)[2] = "dns_error"

\* C13: the semaphore is created with a limit of at least 1.
SemaphoreCreated ==
    pc \in { "spawn", "join", "report", "exit" } \/ (pc = "exited" /\ ProbingRan)

PermitsHeld == Cardinality({ k \in TaskIds : tasks[k].permit })

C13_PositiveLimit ==
    SemaphoreCreated => (args.concurrency >= 1 /\ permits + PermitsHeld >= 1)

\* C14: the merged list is the command-line targets in order, then the file's
\* lines in order, each trimmed, without those that (once trimmed) are empty
\* or start with '#'; every other line appears exactly once.
NonSpace(line) == { i \in 1 .. Len(line) : line[i] # " " }

Trimmed(line) ==
    IF NonSpace(line) = { } THEN << >>
    ELSE LET first == CHOOSE i \in NonSpace(line) : \A j \in NonSpace(line) : i <= j
             last == CHOOSE i \in NonSpace(line) : \A j \in NonSpace(line) : j <= i
         IN  SubSeq(line, first, last)

Omitted(line) == Trimmed(line) = << >> \/ Trimmed(line)[1] = "#"

KeptLines == { i \in 1 .. Len(file.lines) : ~Omitted(file.lines[i]) }

C15_PermitsConserved ==
    SemaphoreCreated =>
        /\ permits >= 0
        /\ permits + PermitsHeld = args.concurrency
        /\ \A k \in TaskIds : tasks[k].permit <=> Running(k)
        /\ (Len(tasks) = Len(targets) /\ \A k \in TaskIds : Done(k)) =>
              permits = args.concurrency

C15_Witness ==
    /\ Len(tasks) = 2
    /\ args.concurrency = 1
    /\ Done(1) /\ ResultOf(1).status = "ok"
    /\ Done(2) /\ ResultOf(2).status = "fail"
    /\ permits = 1

\* C16: nothing is counted or printed while a task is still waiting for its
\* permit, attempting or backing off.
AllTasksDone == Len(tasks) = Len(targets) /\ \A k \in TaskIds : Done(k)

C16_OutputAfterAllTasks ==
    (stdout # << >> \/ healthy # 0 \/ pc \in { "report", "exit" }) => AllTasksDone

C16_Witness ==
    /\ Len(stdout) = 3
    /\ healthy = 1
    /\ completed = << 2, 1 >>
    /\ AllTasksDone

\* C17: every attempt starts with a fresh resolution and holds no address
\* before it; a resolution failure on attempt i goes on without a connect
\* attempt, with its detail as the last error, to attempt i+1 when i < R, and
\* when i = R it ends the task with that detail in the result.
ResolutionFailure == { "no_addresses", "dns_error" }

C17_Step(k) ==
    LET t == tasks[k]
        u == tasks'[k]
        o == obs'[k]
    IN  /\ (t.pc \in { "acquire", "sleep" } /\ u # t) =>
              (u.pc = "resolve" /\ u.addr = None /\ u.attempt = t.attempt)
        /\ (u.pc = "connect" /\ t.pc # "connect") =>
              (t.pc = "resolve" /\ t.addr = None /\ u.addr # None /\ u.attempt = t.attempt)
        /\ (t.pc = "resolve" /\ u.pc \in { "sleep", "done" }) =>
              /\ o.last # None
              /\ o.last[1][1] = t.attempt
              /\ o.last[1][2] \in ResolutionFailure
              /\ o.attempts = t.attempt + 1
              /\ IF t.attempt < args.retries
                 THEN /\ u.pc = "sleep"
                      /\ u.attempt = t.attempt + 1
                      /\ u.addr = None
                      /\ u.last_error = Some(DetailOf(o.last[1][2], o.last[1][3]))
                 ELSE /\ u.pc = "done"
                      /\ u.out[1].status = "fail"
                      /\ u.out[1].error = Some(DetailOf(o.last[1][2], o.last[1][3]))

C17_ResolveEveryAttempt == [][\A k \in TaskIds : C17_Step(k)]_vars

C17_Witness ==
    \E k \in TaskIds :
        /\ Done(k)
        /\ args.retries = 2 /\ obs[k].attempts = 3
        /\ LastOf(k)[2] = "dns_error"
        /\ ResultOf(k).error = Some(<< "DNS error: ", "lookup failed", "" >>)

\* C18: no connect attempt lasts longer than the timeout T, an attempt that
\* times out lasts exactly T whatever came before it, and a task whose
\* attempts all timed out has spent (R+1)*T connecting and 100*R*(R+1)/2 ms
\* backing off.
C18_TimeoutPerAttempt ==
    \A k \in TaskIds :
        /\ obs[k].last # None =>
              /\ LastOf(k)[4] <= connect_timeout
              /\ LastOf(k)[2] = "timeout" => LastOf(k)[4] = connect_timeout
              /\ LastOf(k)[2] \in ResolutionFailure => LastOf(k)[4] = 0
        /\ (obs[k].only_timeouts # None /\ obs[k].last # None) =>
              obs[k].only_timeouts[1] = (LastOf(k)[1] + 1) * connect_timeout
        /\ (Done(k) /\ obs[k].only_timeouts # None) =>
              /\ obs[k].attempts = args.retries + 1
              /\ obs[k].only_timeouts[1] = (args.retries + 1) * connect_timeout
              /\ 2 * (obs[k].only_timeouts[1] + SumSeq(obs[k].sleeps))
                    = 2 * (args.retries + 1) * connect_timeout
                      + 100 * args.retries * (args.retries + 1)

C18_Witness ==
    \E k \in TaskIds :
        /\ connect_timeout = 200 /\ args.retries = 1
        /\ Done(k) /\ ResultOf(k).status = "fail" /\ ResultOf(k).retries_used = 1
        /\ obs[k].attempts = 2
        /\ obs[k].only_timeouts = Some(400)
        /\ obs[k].sleeps = << 100 >>
        /\ obs[k].only_timeouts[1] + SumSeq(obs[k].sleeps) = 500

\* C19: while a task waits at one of its four waiting points (for a permit,
\* in the lookup, in the connect-or-timeout race, in the backoff sleep),
\* every other task that can go on is run.
CanGoOn(k) ==
    \/ tasks[k].pc = "acquire" /\ permits > 0
    \/ tasks[k].pc \in { "sleep", "resolve", "connect" }

C19_WaitingNeverStallsOthers ==
    \A j, k \in TaskIds :
        (j # k /\ tasks[j].pc \in { "acquire", "sleep", "resolve", "connect" } /\ CanGoOn(k)) =>
            ENABLED (Acquire(k) \/ Wake(k) \/ Resolve(k) \/ Connect(k))

\* C20: in the Summary, total is the number of results, healthy is the number
\* of results with status "ok", 0 <= healthy <= total, and the number of
\* targets equals the number of collected results.
IsJson(out) == Len(out) = 1 /\ "results" \in DOMAIN out[1]

OkIndexes(rs) == { i \in 1 .. Len(rs) : rs[i].status = "ok" }

C20_SummaryCounts ==
    /\ AfterJoin => Len(results) = Len(targets)
    /\ pc \in { "exit", "exited" } /\ ProbingRan =>
          /\ healthy = Cardinality(OkIndexes(results))
          /\ 0 <= healthy /\ healthy <= Len(targets)
    /\ IsJson(stdout) =>
          /\ stdout[1].total = Len(stdout[1].results)
          /\ stdout[1].results = results
          /\ stdout[1].healthy = Cardinality(OkIndexes(stdout[1].results))
          /\ 0 <= stdout[1].healthy /\ stdout[1].healthy <= stdout[1].total

C20_Witness ==
    /\ IsJson(stdout)
    /\ stdout[1].total = 2
    /\ stdout[1].healthy = 1
    /\ stdout[1].results[1].status = "fail"
    /\ stdout[1].results[2].status = "ok"

====
